---- MODULE Spec2Model ----
(***************************************************************************)
(* Virtual patient simulator: CaseLoader (two file formats) and the        *)
(* VirtualPatient session (set_case, interact, check_diagnosis, get_score, *)
(* load_cases_from_file), for both variants of the repository:             *)
(*   "virtual_patient"    src/virtual_patient.py        (unhardened)       *)
(*   "virtual_patient_2"  src/virtual_patient_2(1).py   (hardened)         *)
(* Texts are sequences of one-character strings, so that lower(), strip(),  *)
(* replace(), the regular expressions and difflib's ratio are computed as   *)
(* the code computes them.                                                  *)
(***************************************************************************)
EXTENDS Integers, Sequences, FiniteSets, TLC

VARIABLES
    variant,               \* which source file the session runs
    all_cases,             \* self.all_cases
    current_case,          \* self.current_case (None or a case record)
    conversation_history,  \* self.conversation_history
    diagnosis_made,        \* self.diagnosis_made
    diagnosis_correct,     \* self.diagnosis_correct
    call,                  \* the last call made on the session and its outcome
    attempt                \* history: the last diagnosis check since set_case

vars == <<variant, all_cases, current_case, conversation_history,
          diagnosis_made, diagnosis_correct, call, attempt>>

session == <<all_cases, current_case, conversation_history,
             diagnosis_made, diagnosis_correct>>

\* Longest transcript (number of turns) the model lets a session grow to.
MaxHistory == 3

---------------------------------------------------------------------------
(* Python str operations on texts                                          *)

UpperChars == <<"A","B","C","D","E","F","G","H","I","J","K","L","M","N","O","P","Q","R","S","T","U","V","W","X","Y","Z">>
LowerChars == <<"a","b","c","d","e","f","g","h","i","j","k","l","m","n","o","p","q","r","s","t","u","v","w","x","y","z">>

IsUpperChar(c) == \E i \in 1..Len(UpperChars) : UpperChars[i] = c
IsLowerChar(c) == \E i \in 1..Len(LowerChars) : LowerChars[i] = c

ToLower(c) ==
    IF IsUpperChar(c)
    THEN LowerChars[CHOOSE i \in 1..Len(UpperChars) : UpperChars[i] = c]
    ELSE c

ToUpper(c) ==
    IF IsLowerChar(c)
    THEN UpperChars[CHOOSE i \in 1..Len(LowerChars) : LowerChars[i] = c]
    ELSE c

\* str.lower()
lower(s) == [i \in 1..Len(s) |-> ToLower(s[i])]

\* The characters str.strip() removes and \s matches.
Whitespace == {" ", "\n", "\t", "\r"}

RECURSIVE lstrip(_)
lstrip(s) ==
    IF s # <<>> /\ Head(s) \in Whitespace THEN lstrip(Tail(s)) ELSE s

RECURSIVE rstrip(_)
rstrip(s) ==
    IF s # <<>> /\ s[Len(s)] \in Whitespace
    THEN rstrip(SubSeq(s, 1, Len(s) - 1))
    ELSE s

\* str.strip()
strip(s) == rstrip(lstrip(s))

\* s.startswith(prefix)
startswith(s, prefix) ==
    Len(s) >= Len(prefix) /\ SubSeq(s, 1, Len(prefix)) = prefix

\* sub in s
contains(s, sub) ==
    \E i \in 0..(Len(s) - Len(sub)) : SubSeq(s, i + 1, i + Len(sub)) = sub

\* s.replace(old, new): every non-overlapping occurrence, left to right.
RECURSIVE replace(_, _, _)
replace(s, old, new) ==
    LET occurs(i) == SubSeq(s, i + 1, i + Len(old)) = old
        found == {i \in 0..(Len(s) - Len(old)) : occurs(i)}
    IN  IF found = {} THEN s
        ELSE LET first == CHOOSE i \in found : \A j \in found : i <= j
             IN  SubSeq(s, 1, first) \o new
                     \o replace(SubSeq(s, first + Len(old) + 1, Len(s)), old, new)

\* s.isupper(): at least one cased character and no lower-case one.
isupper(s) ==
    /\ \E i \in 1..Len(s) : IsUpperChar(s[i])
    /\ \A i \in 1..Len(s) : ~IsLowerChar(s[i])

---------------------------------------------------------------------------
(* difflib.SequenceMatcher(None, a, b).ratio() (texts shorter than 200     *)
(* characters, so the automatic junk heuristic is off)                     *)

\* Length of the common run of a[i:ahi] and b[j:bhi] (0-based, half-open).
RECURSIVE RunLen(_, _, _, _, _, _)
RunLen(a, i, ahi, b, j, bhi) ==
    IF i < ahi /\ j < bhi /\ a[i + 1] = b[j + 1]
    THEN 1 + RunLen(a, i + 1, ahi, b, j + 1, bhi)
    ELSE 0

\* find_longest_match: the longest block, earliest in a, then earliest in b.
find_longest_match(a, b, alo, ahi, blo, bhi) ==
    LET starts == (alo..(ahi - 1)) \X (blo..(bhi - 1))
        size(p) == RunLen(a, p[1], ahi, b, p[2], bhi)
        hits == {p \in starts : a[p[1] + 1] = b[p[2] + 1]}
    IN  IF hits = {} THEN <<alo, blo, 0>>
        ELSE LET best == CHOOSE p \in hits :
                     \A q \in hits :
                         \/ size(p) > size(q)
                         \/ /\ size(p) = size(q)
                            /\ \/ p[1] < q[1]
                               \/ p[1] = q[1] /\ p[2] <= q[2]
             IN  <<best[1], best[2], size(best)>>

\* Sum of the sizes of get_matching_blocks().
RECURSIVE MatchCount(_, _, _, _, _, _)
MatchCount(a, b, alo, ahi, blo, bhi) ==
    LET m == find_longest_match(a, b, alo, ahi, blo, bhi)
        i == m[1]
        j == m[2]
        k == m[3]
    IN  IF k = 0 THEN 0
        ELSE k + (IF alo < i /\ blo < j
                  THEN MatchCount(a, b, alo, i, blo, j) ELSE 0)
               + (IF i + k < ahi /\ j + k < bhi
                  THEN MatchCount(a, b, i + k, ahi, j + k, bhi) ELSE 0)

\* ratio() as the fraction <<numerator, denominator>>: 2.0*matches/length,
\* and 1.0 when both texts are empty.
ratio(a, b) ==
    LET length == Len(a) + Len(b)
    IN  IF length = 0 THEN <<1, 1>>
        ELSE <<2 * MatchCount(a, b, 0, Len(a), 0, Len(b)), length>>

\* similarity > 0.8
AboveThreshold(r) == 10 * r[1] > 8 * r[2]

---------------------------------------------------------------------------
(* Regular expressions, as Python's re matches them: a pattern is a        *)
(* sequence of items, each a character class taken once, optionally, or    *)
(* greedily many times, with backtracking; groups are ranges of items.     *)

Digits == {"0","1","2","3","4","5","6","7","8","9"}

Item(cs, neg, min, star) == [cs |-> cs, neg |-> neg, min |-> min, star |-> star]

\* A literal text, case-sensitive.
RECURSIVE Lit(_)
Lit(s) ==
    IF s = <<>> THEN <<>>
    ELSE <<Item({Head(s)}, FALSE, 1, FALSE)>> \o Lit(Tail(s))

\* A literal text under re.IGNORECASE.
RECURSIVE LitI(_)
LitI(s) ==
    IF s = <<>> THEN <<>>
    ELSE <<Item({ToLower(Head(s)), ToUpper(Head(s))}, FALSE, 1, FALSE)>>
             \o LitI(Tail(s))

Opt(cs) == <<Item(cs, FALSE, 0, FALSE)>>          \* [cs]?
Star(cs) == <<Item(cs, FALSE, 0, TRUE)>>          \* [cs]*
Plus(cs) == <<Item(cs, FALSE, 1, TRUE)>>          \* [cs]+
PlusNot(cs) == <<Item(cs, TRUE, 1, TRUE)>>        \* [^cs]+

\* A pattern whose group 1 is g: pre(g)post.
Regex1(pre, g, post) ==
    [items |-> pre \o g \o post,
     groups |-> <<<<Len(pre) + 1, Len(pre) + Len(g)>>>>]

\* A pattern with two groups: pre(g1)mid(g2).
Regex2(pre, g1, mid, g2) ==
    [items |-> pre \o g1 \o mid \o g2,
     groups |-> <<<<Len(pre) + 1, Len(pre) + Len(g1)>>,
                  <<Len(pre) + Len(g1) + Len(mid) + 1,
                    Len(pre) + Len(g1) + Len(mid) + Len(g2)>>>>]

ItemMatches(it, c) == (c \in it.cs) # it.neg

\* How many characters from offset pos the item can take at most.
MaxRun(text, pos, it) ==
    LET limit == IF it.star THEN Len(text) - pos
                 ELSE IF pos < Len(text) THEN 1 ELSE 0
        runs == {n \in 0..limit :
                     \A i \in 1..n : ItemMatches(it, text[pos + i])}
    IN  CHOOSE n \in runs : \A m \in runs : m <= n

\* Match items k.. of the pattern at offset pos: the offsets where each
\* item starts followed by the offset where the match ends, or <<>>.
RECURSIVE MatchAt(_, _, _, _)
RECURSIVE TryCount(_, _, _, _, _)
MatchAt(text, pos, items, k) ==
    IF k > Len(items) THEN <<pos>>
    ELSE TryCount(text, pos, items, k, MaxRun(text, pos, items[k]))

TryCount(text, pos, items, k, n) ==
    IF n < items[k].min THEN <<>>
    ELSE LET rest == MatchAt(text, pos + n, items, k + 1)
         IN  IF rest # <<>> THEN <<pos>> \o rest
             ELSE TryCount(text, pos, items, k, n - 1)

NoMatch == [found |-> FALSE, alt |-> 0, at |-> <<>>]

\* re.match with alternatives tried in order at offset pos.
RECURSIVE match_alts(_, _, _, _)
match_alts(alts, text, pos, a) ==
    IF a > Len(alts) THEN NoMatch
    ELSE LET at == MatchAt(text, pos, alts[a].items, 1)
         IN  IF at # <<>> THEN [found |-> TRUE, alt |-> a, at |-> at]
             ELSE match_alts(alts, text, pos, a + 1)

\* re.search from offset pos: the leftmost match.
search_from(alts, text, pos) ==
    LET hits == {p \in pos..Len(text) : match_alts(alts, text, p, 1).found}
    IN  IF hits = {} THEN NoMatch
        ELSE match_alts(alts, text,
                        CHOOSE p \in hits : \A q \in hits : p <= q, 1)

re_search(alts, text) == search_from(alts, text, 0)
re_match(alts, text) == match_alts(alts, text, 0, 1)

match_start(m) == m.at[1]
match_end(m) == m.at[Len(m.at)]

\* match.group(n)
group(alts, text, m, n) ==
    LET range == alts[m.alt].groups[n]
    IN  SubSeq(text, m.at[range[1]] + 1, m.at[range[2] + 1])

\* re.sub(pattern, '', text): every match removed, left to right.
RECURSIVE re_sub_empty(_, _)
re_sub_empty(alts, text) ==
    LET m == re_search(alts, text)
    IN  IF ~m.found \/ match_end(m) = match_start(m) THEN text
        ELSE SubSeq(text, 1, match_start(m))
                 \o re_sub_empty(alts, SubSeq(text, match_end(m) + 1, Len(text)))

\* text.split(sep) for a one-character separator.
RECURSIVE split_char(_, _)
split_char(text, sep) ==
    IF \A i \in 1..Len(text) : text[i] # sep THEN <<text>>
    ELSE LET i == CHOOSE i \in 1..Len(text) :
                      text[i] = sep /\ \A j \in 1..(i - 1) : text[j] # sep
         IN  <<SubSeq(text, 1, i - 1)>>
                 \o split_char(SubSeq(text, i + 1, Len(text)), sep)

\* sep.join(parts)
RECURSIVE join(_, _)
join(sep, parts) ==
    IF parts = <<>> THEN <<>>
    ELSE IF Len(parts) = 1 THEN parts[1]
         ELSE parts[1] \o sep \o join(sep, Tail(parts))

\* re.split on a lookahead: the text is cut before every offset where the
\* pattern matches (an empty first piece when it matches at offset 0).
RECURSIVE split_before(_, _, _, _)
split_before(alts, text, start, pos) ==
    LET cuts == {p \in pos..(Len(text) - 1) :
                     match_alts(alts, text, p, 1).found}
    IN  IF cuts = {} THEN <<SubSeq(text, start + 1, Len(text))>>
        ELSE LET cut == CHOOSE p \in cuts : \A q \in cuts : p <= q
             IN  <<SubSeq(text, start + 1, cut)>>
                     \o split_before(alts, text, cut, cut + 1)

---------------------------------------------------------------------------
(* CaseLoader                                                              *)

Newline == <<"\n">>
NotNewline == PlusNot({"\n"})
UpperLetters == {UpperChars[i] : i \in 1..Len(UpperChars)}

CaseRecord(specialty, case_number, presenting_complaint, diagnosis, case_details) ==
    [specialty |-> specialty, case_number |-> case_number,
     presenting_complaint |-> presenting_complaint,
     diagnosis |-> diagnosis, case_details |-> case_details]

\* What CaseLoader.load_cases_from_file gives back.
Loaded(cases) == [outcome |-> "return", cases |-> cases]
LoadError == [outcome |-> "raise", cases |-> <<>>]

(* Format A: src/virtual_patient.py *)

\* r'(?=Case\s+\d+:)'
A_SplitPattern ==
    <<[items |-> Lit(<<"C","a","s","e">>) \o Plus(Whitespace) \o Plus(Digits) \o Lit(<<":">>),
       groups |-> <<>>]>>

\* r'Case (\d+):\s*(.+)'
A_TitlePattern ==
    <<Regex2(Lit(<<"C","a","s","e"," ">>), Plus(Digits), Lit(<<":">>) \o Star(Whitespace),
             NotNewline)>>

\* diagnosis_patterns, each under re.IGNORECASE
A_DiagnosisPatterns ==
    << \* r'Diagnosis:?\s*([^\n]+)'
       <<Regex1(LitI(<<"D","i","a","g","n","o","s","i","s">>) \o Opt({":"}) \o Star(Whitespace),
                NotNewline, <<>>)>>,
       \* r'The diagnosis is:?\s*([^\n]+)'
       <<Regex1(LitI(<<"T","h","e"," ","d","i","a","g","n","o","s","i","s"," ","i","s">>) \o Opt({":"}) \o Star(Whitespace),
                NotNewline, <<>>)>>,
       \* r'This (patient|case) demonstrates:?\s*([^\n]+)'
       <<Regex2(LitI(<<"T","h","i","s"," ">>), LitI(<<"p","a","t","i","e","n","t">>),
                LitI(<<" ","d","e","m","o","n","s","t","r","a","t","e","s">>) \o Opt({":"}) \o Star(Whitespace),
                NotNewline),
         Regex2(LitI(<<"T","h","i","s"," ">>), LitI(<<"c","a","s","e">>),
                LitI(<<" ","d","e","m","o","n","s","t","r","a","t","e","s">>) \o Opt({":"}) \o Star(Whitespace),
                NotNewline)>> >>

\* The loop over diagnosis_patterns: the first pattern that matches gives
\* the diagnosis (group 1, stripped) and is removed from the text.
RECURSIVE A_extract_diagnosis(_, _)
A_extract_diagnosis(case_text, p) ==
    IF p > Len(A_DiagnosisPatterns)
    THEN [diagnosis |-> <<>>, case_text |-> case_text]
    ELSE LET pattern == A_DiagnosisPatterns[p]
             m == re_search(pattern, case_text)
         IN  IF m.found
             THEN [diagnosis |-> strip(group(pattern, case_text, m, 1)),
                   case_text |-> re_sub_empty(pattern, case_text)]
             ELSE A_extract_diagnosis(case_text, p + 1)

\* CaseLoader.parse_case of src/virtual_patient.py
A_parse_case(case_text) ==
    LET lines == split_char(case_text, "\n")
        has_specialty == startswith(lines[1], <<"S","p","e","c","i","a","l","t","y",":">>)
        specialty == IF has_specialty
                     THEN strip(replace(lines[1], <<"S","p","e","c","i","a","l","t","y",":">>, <<>>))
                     ELSE <<>>
        title_line == IF has_specialty THEN lines[2] ELSE lines[1]
        case_match == re_match(A_TitlePattern, title_line)
        found == A_extract_diagnosis(join(Newline, lines), 1)
    IN  CaseRecord(
            specialty,
            IF case_match.found
            THEN group(A_TitlePattern, title_line, case_match, 1) ELSE <<>>,
            IF case_match.found
            THEN group(A_TitlePattern, title_line, case_match, 2) ELSE <<>>,
            found.diagnosis,
            strip(found.case_text))

\* The loop over the segments, carrying current_specialty.
RECURSIVE A_process_cases(_, _, _)
A_process_cases(cases, k, current_specialty) ==
    IF k > Len(cases) THEN <<>>
    ELSE LET case == strip(cases[k])
         IN  IF case = <<>>
             THEN A_process_cases(cases, k + 1, current_specialty)
             ELSE IF isupper(case) /\ Len(case) < 50
             THEN A_process_cases(cases, k + 1, case)
             ELSE IF startswith(case, <<"C","a","s","e">>)
             THEN LET full_case == <<"S","p","e","c","i","a","l","t","y",":"," ">> \o current_specialty
                                       \o Newline \o case
                      case_data == A_parse_case(full_case)
                  IN  (IF case_data.case_details # <<>>
                       THEN <<case_data>> ELSE <<>>)
                          \o A_process_cases(cases, k + 1, current_specialty)
             ELSE A_process_cases(cases, k + 1, current_specialty)

\* CaseLoader.load_cases_from_file of src/virtual_patient.py
A_load_cases_from_file(file) ==
    IF ~file.readable THEN LoadError
    ELSE Loaded(A_process_cases(
                    split_before(A_SplitPattern, file.content, 0, 0),
                    1, <<"U","n","k","n","o","w","n">>))

(* Format B: src/virtual_patient_2(1).py *)

\* r'^([A-Z]+)'
B_SpecialtyPattern == <<Regex1(<<>>, Plus(UpperLetters), <<>>)>>

\* r'CASE\s*(\d+):\s*(.+)' under re.IGNORECASE
B_CasePattern ==
    <<Regex2(LitI(<<"C","A","S","E">>) \o Star(Whitespace), Plus(Digits),
             Lit(<<":">>) \o Star(Whitespace), NotNewline)>>

\* diagnosis_patterns, each under re.IGNORECASE
B_DiagnosisPatterns ==
    << \* r'Diagnosis:\s*(.+)'
       <<Regex1(LitI(<<"D","i","a","g","n","o","s","i","s",":">>) \o Star(Whitespace), NotNewline, <<>>)>>,
       \* r'The diagnosis is:\s*(.+)'
       <<Regex1(LitI(<<"T","h","e"," ","d","i","a","g","n","o","s","i","s"," ","i","s",":">>) \o Star(Whitespace), NotNewline,
                <<>>)>>,
       \* r'diagnosis\s*[is]?\s*(.+)'
       <<Regex1(LitI(<<"d","i","a","g","n","o","s","i","s">>) \o Star(Whitespace)
                    \o Opt({"i", "s", "I", "S"}) \o Star(Whitespace),
                NotNewline, <<>>)>> >>

RECURSIVE B_extract_diagnosis(_, _)
B_extract_diagnosis(case_text, p) ==
    IF p > Len(B_DiagnosisPatterns) THEN <<>>
    ELSE LET pattern == B_DiagnosisPatterns[p]
             m == re_search(pattern, case_text)
         IN  IF m.found THEN strip(group(pattern, case_text, m, 1))
             ELSE B_extract_diagnosis(case_text, p + 1)

\* CaseLoader.parse_case of src/virtual_patient_2(1).py
B_parse_case(section) ==
    LET case_text == strip(section)
        specialty_match == re_match(B_SpecialtyPattern, case_text)
        case_match == re_search(B_CasePattern, case_text)
    IN  CaseRecord(
            IF specialty_match.found
            THEN group(B_SpecialtyPattern, case_text, specialty_match, 1)
            ELSE <<>>,
            IF case_match.found
            THEN group(B_CasePattern, case_text, case_match, 1) ELSE <<>>,
            IF case_match.found
            THEN group(B_CasePattern, case_text, case_match, 2) ELSE <<>>,
            B_extract_diagnosis(case_text, 1),
            case_text)

\* The loop over the sections the file splits into.
RECURSIVE B_process_sections(_, _)
B_process_sections(case_sections, k) ==
    IF k > Len(case_sections) THEN <<>>
    ELSE IF strip(case_sections[k]) = <<>>
         THEN B_process_sections(case_sections, k + 1)
         ELSE <<B_parse_case(case_sections[k])>>
                  \o B_process_sections(case_sections, k + 1)

\* CaseLoader.load_cases_from_file of src/virtual_patient_2(1).py
B_load_cases_from_file(file) ==
    IF ~file.readable THEN LoadError
    ELSE LET processed_cases ==
                 B_process_sections(split_char(file.content, "@"), 1)
         IN  IF processed_cases = <<>> THEN LoadError
             ELSE Loaded(processed_cases)

---------------------------------------------------------------------------
(* The files of the model                                                  *)

File(content) == [readable |-> TRUE, content |-> content]
Unreadable == [readable |-> FALSE, content |-> <<>>]

\* A well-formed format-A block: the heading, a line of history, and a
\* diagnosis line made of one of the recognised markers and the diagnosis.
Block(number, complaint, history, marker, diagnosis) ==
    [number |-> number, complaint |-> complaint, history |-> history,
     marker |-> marker, diagnosis |-> diagnosis]

RenderBlock(b) ==
    <<"C","a","s","e"," ">> \o b.number \o <<":"," ">> \o b.complaint \o Newline
        \o b.history \o Newline \o b.marker \o b.diagnosis

RECURSIVE RenderBlocks(_)
RenderBlocks(blocks) ==
    IF Len(blocks) = 1 THEN RenderBlock(blocks[1])
    ELSE RenderBlock(blocks[1]) \o Newline \o RenderBlocks(Tail(blocks))

Marker_Diagnosis == <<"D","i","a","g","n","o","s","i","s",":"," ">>
Marker_Demonstrates == <<"T","h","i","s"," ","p","a","t","i","e","n","t"," ","d","e","m","o","n","s","t","r","a","t","e","s",":"," ">>

\* The format-A files of the model that hold only well-formed blocks
\* (after an optional specialty header), and their blocks.
WellFormedNames == {"two_cases.txt", "demonstrates.txt", "phrase.txt"}

Header(name) == IF name = "phrase.txt" THEN <<"H","E","A","D","\n">> ELSE <<>>

Blocks(name) ==
    CASE name = "two_cases.txt" ->
           <<Block(<<"1">>, <<"s","o","r","e"," ","t","h","r","o","a","t">>, <<"H","x",":"," ","3"," ","d","a","y","s">>, Marker_Diagnosis,
                   <<"s","t","r","e","p"," ","t","h","r","o","a","t">>),
             Block(<<"2">>, <<"c","o","u","g","h">>, <<"H","x",":"," ","1"," ","w","e","e","k">>, Marker_Diagnosis,
                   <<"b","r","o","n","c","h","i","t","i","s">>)>>
      [] name = "demonstrates.txt" ->
           <<Block(<<"1">>, <<"c","o","u","g","h">>, <<"H","x",":"," ","w","h","e","e","z","e">>, Marker_Demonstrates,
                   <<"a","s","t","h","m","a">>)>>
      [] name = "phrase.txt" ->
           <<Block(<<"4">>, <<"f","e","v","e","r">>, <<"H","x",":"," ","2"," ","d","a","y","s">>, Marker_Diagnosis,
                   <<"t","h","i","s"," ","i","s"," ","f","l","u">>)>>

FileNames ==
    WellFormedNames
        \cup {"empty.txt", "no_diagnosis.txt", "format_b.txt",
              "blank_sections.txt", "missing.txt"}

FileSystem(name) ==
    CASE name \in WellFormedNames ->
           File(Header(name) \o RenderBlocks(Blocks(name)))
      [] name = "empty.txt" -> File(<<>>)
      [] name = "no_diagnosis.txt" -> File(<<"C","a","s","e"," ","3",":"," ","r","a","s","h","\n","i","t","c","h","y">>)
      [] name = "format_b.txt" ->
           File(<<"R","E","S","P","\n","C","A","S","E"," ","1",":"," ","c","o","u","g","h","\n","D","i","a","g","n","o","s","i","s",":"," ","f","l","u","@","E","A","R","\n","C","A","S","E"," ","2",":"," ","e","a","r","a","c","h","e","\n","T","h","e"," ","d","i","a","g","n","o","s","i","s"," ","i","s",":"," ","o","t","i","t","i","s">>)
      [] name = "blank_sections.txt" -> File(<<" ","@","\n">>)
      [] OTHER -> Unreadable

---------------------------------------------------------------------------
(* VirtualPatient                                                          *)

Variants == {"virtual_patient", "virtual_patient_2"}

\* The hardened variant catches the external model's failures.
Hardened == variant = "virtual_patient_2"

\* self.current_case = None
None == [none |-> TRUE]

P_my_diagnosis_is == <<"m","y"," ","d","i","a","g","n","o","s","i","s"," ","i","s">>
P_i_think_this_is == <<"i"," ","t","h","i","n","k"," ","t","h","i","s"," ","i","s">>
P_this_could_be == <<"t","h","i","s"," ","c","o","u","l","d"," ","b","e">>
P_you_have == <<"y","o","u"," ","h","a","v","e">>
P_this_is == <<"t","h","i","s"," ","i","s">>

\* The keywords interact looks for in the lower-cased message.
DiagnosisKeywords ==
    <<P_my_diagnosis_is, P_i_think_this_is, P_this_could_be, P_you_have>>

\* The phrases check_diagnosis removes, in this order.
StrippedPhrases ==
    <<P_my_diagnosis_is, P_i_think_this_is, P_this_could_be, P_you_have,
      P_this_is>>

\* The keyword test taken over every phrase check_diagnosis strips.
is_diagnosis_attempt_any_phrase(doctor_message) ==
    \E k \in 1..Len(StrippedPhrases) :
        contains(lower(doctor_message), StrippedPhrases[k])

\* any(keyword in doctor_message.lower() for keyword in [...])
is_diagnosis_attempt(doctor_message) ==
    \E k \in 1..Len(DiagnosisKeywords) :
        contains(lower(doctor_message), DiagnosisKeywords[k])

\* for phrase in [...]: diagnosis_text = diagnosis_text.replace(phrase, '').strip()
RECURSIVE strip_phrases(_, _)
strip_phrases(diagnosis_text, k) ==
    IF k > Len(StrippedPhrases) THEN diagnosis_text
    ELSE strip_phrases(strip(replace(diagnosis_text, StrippedPhrases[k], <<>>)),
                       k + 1)

\* The candidate diagnosis check_diagnosis isolates from the message.
diagnosis_text_of(doctor_message) == strip_phrases(lower(doctor_message), 1)

\* similarity > 0.8 for a message against a case's ground truth.
is_match(doctor_message, diagnosis) ==
    AboveThreshold(ratio(diagnosis_text_of(doctor_message), lower(diagnosis)))

\* What a call returned or raised: a fixed text and the value filled into it.
Return(text, detail) == [outcome |-> "return", text |-> text, detail |-> detail]
Raise(text) == [outcome |-> "raise", text |-> text, detail |-> <<>>]

NoCaseLoaded == "No case loaded. Please load a case first."
CorrectFeedback ==
    "Correct! The diagnosis is {diagnosis}. Would you like to discuss the case or move to the next one?"
IncorrectFeedback ==
    "That's not quite right. The actual diagnosis is {diagnosis}. Let's review the key points of the case. What made this diagnosis challenging?"
ErrorGenerating == "Error generating response: {e}"
PatientResponse == "{patient_response}"

---------------------------------------------------------------------------
(* Inputs                                                                  *)

M_any_pain == <<"a","n","y"," ","p","a","i","n","?">>
M_this_is_flu == <<"t","h","i","s"," ","i","s"," ","f","l","u">>
M_you_have_strep == <<"y","o","u"," ","h","a","v","e"," ","s","t","r","e","p"," ","t","h","r","o","a","t">>
M_you_have == <<"Y","o","u"," ","H","a","v","e">>
M_i_think == <<"I"," ","t","h","i","n","k"," ","t","h","i","s"," ","i","s"," ","b","r","o","n","c","h","i","t","i","s">>
M_could_be == <<"T","h","i","s"," ","c","o","u","l","d"," ","b","e"," ","f","l","u">>
My_diagnosis_is_ == <<"M","y"," ","d","i","a","g","n","o","s","i","s"," ","i","s"," ">>

\* What the doctor types.
DoctorMessages ==
    {M_any_pain, M_this_is_flu, M_you_have_strep, M_you_have, M_i_think,
     M_could_be}

\* CaseLoader.load_cases_from_file as variant v defines it.
CaseLoader_load_cases_from_file(v, name) ==
    IF v = "virtual_patient_2" THEN B_load_cases_from_file(FileSystem(name))
    ELSE A_load_cases_from_file(FileSystem(name))

\* What CaseLoader gives for each file of the model.
Parsed ==
    [v \in Variants |->
        [name \in FileNames |-> CaseLoader_load_cases_from_file(v, name)]]

\* The elements of a sequence.
Range(seq) == {seq[k] : k \in 1..Len(seq)}

\* Every ground-truth diagnosis the loader results hold.
DiagnosesOf(results) ==
    {c.diagnosis : c \in UNION {Range(results[v][name].cases) :
                                    v \in Variants, name \in FileNames}}
KnownDiagnoses == DiagnosesOf(Parsed)

\* "My diagnosis is " + D
AnnounceTruth(diagnosis) == My_diagnosis_is_ \o diagnosis

\* The messages of the model: the doctor's, and each truth announced.
MessagesFor(diagnoses) ==
    DoctorMessages \cup {AnnounceTruth(d) : d \in diagnoses}

RoutedFor(diagnoses) ==
    [m \in MessagesFor(diagnoses) |-> is_diagnosis_attempt(m)]
VerdictFor(diagnoses) ==
    [m \in MessagesFor(diagnoses) |-> [d \in diagnoses |-> is_match(m, d)]]

\* interact's keyword test and check_diagnosis's comparison, for every
\* message and ground truth of the model.
Routed == RoutedFor(KnownDiagnoses)
Verdict == VerdictFor(KnownDiagnoses)

\* The messages tried in a state: the doctor's, and the truth announced.
CheckMessages ==
    DoctorMessages
        \cup (IF current_case = None THEN {}
              ELSE {AnnounceTruth(current_case.diagnosis)})


---------------------------------------------------------------------------
(* VirtualPatient: the operations                                          *)

NoAttempt == [made |-> FALSE, completed |-> FALSE, msg |-> <<>>]

\* set_case that forgets to reset the score.
set_case_keeps_score(case) ==
    /\ current_case' = case
    /\ conversation_history' = <<>>
    /\ diagnosis_made' = FALSE
    /\ diagnosis_correct' = diagnosis_correct

\* set_case: the four assignments.
set_case(case) ==
    /\ current_case' = case
    /\ conversation_history' = <<>>
    /\ diagnosis_made' = FALSE
    /\ diagnosis_correct' = FALSE

\* check_diagnosis that never takes a correct outcome back.
check_diagnosis_sticky(doctor_message) ==
    /\ diagnosis_made' = TRUE
    /\ diagnosis_correct' =
           IF current_case = None THEN diagnosis_correct
           ELSE diagnosis_correct
                    \/ Verdict[doctor_message][current_case.diagnosis]
    /\ attempt' = [made |-> TRUE, completed |-> current_case # None,
                   msg |-> doctor_message]
    /\ UNCHANGED <<variant, all_cases, current_case, conversation_history>>

\* check_diagnosis: the state it leaves. Without a case the read of
\* current_case['diagnosis'] raises after diagnosis_made was set.
check_diagnosis(doctor_message) ==
    /\ diagnosis_made' = TRUE
    /\ diagnosis_correct' =
           IF current_case = None THEN diagnosis_correct
           ELSE Verdict[doctor_message][current_case.diagnosis]
    /\ attempt' = [made |-> TRUE, completed |-> current_case # None,
                   msg |-> doctor_message]
    /\ UNCHANGED <<variant, all_cases, current_case, conversation_history>>

\* check_diagnosis: what it returns (read after the assignments above).
check_diagnosis_result ==
    IF current_case = None THEN Raise("TypeError")
    ELSE IF diagnosis_correct'
         THEN Return(CorrectFeedback, current_case.diagnosis)
         ELSE Return(IncorrectFeedback, current_case.diagnosis)

\* get_score: the score it returns.
get_score_value ==
    IF ~diagnosis_made THEN 0
    ELSE IF diagnosis_correct THEN 1 ELSE 0

\* get_score: the feedback it returns.
get_score_feedback ==
    IF ~diagnosis_made THEN "No diagnosis attempted yet."
    ELSE IF diagnosis_correct THEN "Correct diagnosis!"
         ELSE "Incorrect diagnosis. Review the case details."

---------------------------------------------------------------------------
(* The external language model: a reply, or a failure of the call          *)

Replies == {<<"i","t"," ","h","u","r","t","s">>}

ModelOutcomes ==
    {[ok |-> TRUE, content |-> r] : r \in Replies}
        \cup {[ok |-> FALSE, content |-> <<>>]}

User(content) == [role |-> "user", content |-> content]
Assistant(content) == [role |-> "assistant", content |-> content]

---------------------------------------------------------------------------
(* The session as a state machine                                          *)

NoLoad == [outcome |-> "none", cases |-> <<>>]

\* The record of a call: which operation, its argument, what came back,
\* and the session as the call found it. A call fills in what applies to
\* it: the score (get_score), what the external model did (interact), what
\* CaseLoader handed back (loads), the case passed (set_case).
Record(op, arg, result) ==
    [op |-> op, arg |-> arg, outcome |-> result.outcome, text |-> result.text,
     detail |-> result.detail, score |-> 0, model |-> "none",
     loader |-> NoLoad, case |-> None,
     before |-> [turns |-> Len(conversation_history),
                 made |-> diagnosis_made, correct |-> diagnosis_correct]]

Init ==
    /\ variant \in Variants
    /\ all_cases = <<>>
    /\ current_case = None
    /\ conversation_history = <<>>
    /\ diagnosis_made = FALSE
    /\ diagnosis_correct = FALSE
    /\ call = [op |-> "__init__", arg |-> <<>>, outcome |-> "return",
               text |-> "", detail |-> <<>>, score |-> 0, model |-> "none",
               loader |-> NoLoad, case |-> None,
               before |-> [turns |-> 0, made |-> FALSE, correct |-> FALSE]]
    /\ attempt = NoAttempt

\* VirtualPatient.load_cases_from_file, given what CaseLoader handed back:
\* the assignment to all_cases and the conditional set_case.
load_cases_from_file(loaded) ==
    IF loaded.outcome = "raise"
    THEN UNCHANGED <<all_cases, current_case, conversation_history,
                     diagnosis_made, diagnosis_correct, attempt>>
    ELSE /\ all_cases' = loaded.cases
         /\ IF loaded.cases # <<>>
            THEN set_case(loaded.cases[1]) /\ attempt' = NoAttempt
            ELSE UNCHANGED <<current_case, conversation_history,
                             diagnosis_made, diagnosis_correct, attempt>>

\* patient.load_cases_from_file(name): the unhardened variant lets the
\* loader's ValueError out, the hardened one prints it and returns.
LoadCasesFromFile ==
    \E name \in FileNames :
        LET loaded == Parsed[variant][name]
        IN  /\ load_cases_from_file(loaded)
            /\ call' = [Record("load_cases_from_file", <<name>>,
                               IF loaded.outcome = "raise" /\ ~Hardened
                               THEN Raise("ValueError")
                               ELSE Return("None", <<>>))
                           EXCEPT !.loader = loaded]
            /\ UNCHANGED variant

\* patient.set_case(c) for a loaded case c.
SetCase ==
    \E k \in 1..Len(all_cases) :
        /\ set_case(all_cases[k])
        /\ attempt' = NoAttempt
        /\ call' = [Record("set_case", <<>>, Return("None", <<>>))
                       EXCEPT !.case = all_cases[k]]
        /\ UNCHANGED <<variant, all_cases>>

\* interact with no case active: the fixed message.
InteractNoCase(doctor_message) ==
    /\ call' = Record("interact", doctor_message, Return(NoCaseLoaded, <<>>))
    /\ UNCHANGED <<variant, all_cases, current_case, conversation_history,
                   diagnosis_made, diagnosis_correct, attempt>>

\* interact on a diagnosis attempt: return self.check_diagnosis(...).
InteractDiagnosis(doctor_message) ==
    /\ check_diagnosis(doctor_message)
    /\ call' = Record("interact", doctor_message, check_diagnosis_result)

\* The turn without the try/except of the hardened variant.
InteractTurn_propagates(doctor_message) ==
    /\ Len(conversation_history) + 2 <= MaxHistory
    /\ \E response \in ModelOutcomes :
           /\ conversation_history' =
                  IF response.ok
                  THEN conversation_history
                           \o <<User(doctor_message),
                                Assistant(response.content)>>
                  ELSE Append(conversation_history, User(doctor_message))
           /\ call' = [Record("interact", doctor_message,
                              IF response.ok
                              THEN Return(PatientResponse, response.content)
                              ELSE Raise("APIError"))
                          EXCEPT !.model = IF response.ok THEN "replied"
                                           ELSE "failed"]
    /\ UNCHANGED <<variant, all_cases, current_case, diagnosis_made,
                   diagnosis_correct, attempt>>

\* interact on any other message: the user turn is appended, the request
\* goes out, and the reply is appended and returned; a failed request is
\* turned into a text (hardened) or leaves interact as an exception.
InteractTurn(doctor_message) ==
    /\ Len(conversation_history) + 2 <= MaxHistory
    /\ \E response \in ModelOutcomes :
           /\ conversation_history' =
                  IF response.ok
                  THEN conversation_history
                           \o <<User(doctor_message),
                                Assistant(response.content)>>
                  ELSE Append(conversation_history, User(doctor_message))
           /\ call' = [Record("interact", doctor_message,
                              IF response.ok
                              THEN Return(PatientResponse, response.content)
                              ELSE IF Hardened
                                   THEN Return(ErrorGenerating, <<>>)
                                   ELSE Raise("APIError"))
                          EXCEPT !.model = IF response.ok THEN "replied"
                                           ELSE "failed"]
    /\ UNCHANGED <<variant, all_cases, current_case, diagnosis_made,
                   diagnosis_correct, attempt>>

\* interact that looks for a diagnosis before it looks for a case.
interact_routes_first(doctor_message) ==
    IF Routed[doctor_message] THEN InteractDiagnosis(doctor_message)
    ELSE IF current_case = None THEN InteractNoCase(doctor_message)
    ELSE InteractTurn(doctor_message)

\* interact(doctor_message): the two early returns, then the turn.
interact(doctor_message) ==
    IF current_case = None THEN InteractNoCase(doctor_message)
    ELSE IF Routed[doctor_message] THEN InteractDiagnosis(doctor_message)
    ELSE InteractTurn(doctor_message)

Interact == \E doctor_message \in CheckMessages : interact(doctor_message)

\* patient.check_diagnosis(m) called directly.
CheckDiagnosis ==
    \E doctor_message \in CheckMessages :
        /\ check_diagnosis(doctor_message)
        /\ call' = Record("check_diagnosis", doctor_message,
                          check_diagnosis_result)

\* patient.get_score()
GetScore ==
    /\ call' = [Record("get_score", <<>>, Return(get_score_feedback, <<>>))
                   EXCEPT !.score = get_score_value]
    /\ UNCHANGED <<variant, all_cases, current_case, conversation_history,
                   diagnosis_made, diagnosis_correct, attempt>>

\* web_gui.next_case (the GUI drives src/virtual_patient.py).
NextCase ==
    /\ ~Hardened
    /\ IF Len(all_cases) > 1
       THEN /\ all_cases' = Tail(all_cases)
            /\ set_case(all_cases'[1])
            /\ attempt' = NoAttempt
            /\ call' = Record("next_case", <<>>,
                              Return("New case started. How can I help you today?", <<>>))
       ELSE /\ call' = Record("next_case", <<>>,
                              Return("No more cases available", <<>>))
            /\ UNCHANGED <<all_cases, current_case, conversation_history,
                           diagnosis_made, diagnosis_correct, attempt>>
    /\ UNCHANGED variant

Next ==
    \/ LoadCasesFromFile
    \/ SetCase
    \/ Interact
    \/ CheckDiagnosis
    \/ GetScore
    \/ NextCase

Spec == Init /\ [][Next]_vars

---------------------------------------------------------------------------
(* Properties                                                              *)

\* C1: from any session state, set_case(c) leaves current_case = c, an
\* empty conversation_history, and diagnosis_made and diagnosis_correct
\* false.
C1_SetCaseResets ==
    call.op = "set_case" =>
        /\ current_case = call.case
        /\ conversation_history = <<>>
        /\ ~diagnosis_made
        /\ ~diagnosis_correct

\* set_case ran on a session with a transcript and a correct diagnosis.
C1_Witness ==
    /\ call.op = "set_case"
    /\ call.before.turns > 0
    /\ call.before.made
    /\ call.before.correct

\* C2: for a case with diagnosis D, check_diagnosis("My diagnosis is " + D)
\* sets diagnosis_made and diagnosis_correct, for every D.
C2_AnnouncedTruthIsCorrect ==
    (/\ call.op = "check_diagnosis"
     /\ call.outcome = "return"
     /\ call.arg = AnnounceTruth(current_case.diagnosis))
        => diagnosis_made /\ diagnosis_correct

\* The diagnosis-announcing phrases of interact.
AnnouncingPhrases ==
    {P_my_diagnosis_is, P_i_think_this_is, P_this_could_be, P_you_have}

\* Whether the lower-cased message contains an announcing phrase.
Announces ==
    [m \in MessagesFor(KnownDiagnoses) |->
        \E p \in AnnouncingPhrases : contains(lower(m), p)]

\* C3: with a case active, interact(m) checks the diagnosis exactly when m
\* announces one: then no request goes out, the transcript is unchanged,
\* diagnosis_made is set, check_diagnosis's feedback is returned and
\* get_score reports 1 exactly for a matching guess; otherwise a turn runs
\* and diagnosis_made and diagnosis_correct are unchanged.
C3_InteractRouting ==
    [][(call'.op = "interact" /\ current_case # None) =>
          IF Announces[call'.arg]
          THEN /\ call'.model = "none"
               /\ UNCHANGED conversation_history
               /\ diagnosis_made'
               /\ call'.outcome = "return"
               /\ call'.detail = current_case.diagnosis
               /\ call'.text =
                      (IF Verdict[call'.arg][current_case.diagnosis]
                       THEN CorrectFeedback ELSE IncorrectFeedback)
               /\ get_score_value' =
                      (IF Verdict[call'.arg][current_case.diagnosis]
                       THEN 1 ELSE 0)
          ELSE /\ call'.model # "none"
               /\ conversation_history' # conversation_history
               /\ UNCHANGED <<diagnosis_made, diagnosis_correct>>]_vars

\* interact("you have strep throat") on the strep throat case, mid-session.
C3_Witness ==
    /\ call.op = "interact"
    /\ call.arg = M_you_have_strep
    /\ call.text = CorrectFeedback
    /\ call.detail = <<"s","t","r","e","p"," ","t","h","r","o","a","t">>
    /\ conversation_history # <<>>
    /\ get_score_value = 1

\* C4: with no case active, interact(m) returns the fixed message for every
\* m, sends nothing to the external model and changes nothing.
C4_NoCaseLoaded ==
    [][(call'.op = "interact" /\ current_case = None) =>
          /\ call'.outcome = "return"
          /\ call'.text = NoCaseLoaded
          /\ call'.model = "none"
          /\ UNCHANGED <<all_cases, current_case, conversation_history,
                         diagnosis_made, diagnosis_correct>>]_vars

\* interact with no case, on a message that announces a diagnosis.
C4_Witness ==
    /\ call.op = "interact"
    /\ current_case = None
    /\ call.text = NoCaseLoaded
    /\ Announces[call.arg]
    /\ diagnosis_made

\* C5: a format-A file of k well-formed blocks, each with a recognisable
\* diagnosis line, loads as k records in file order, each with non-empty
\* case_details and the trimmed text after the marker as its diagnosis.
C5_WellFormedBlocksLoad ==
    (/\ call.op = "load_cases_from_file"
     /\ variant = "virtual_patient"
     /\ call.arg[1] \in WellFormedNames)
        => /\ call.loader.outcome = "return"
           /\ Len(call.loader.cases) = Len(Blocks(call.arg[1]))
           /\ \A k \in 1..Len(Blocks(call.arg[1])) :
                  /\ call.loader.cases[k].case_details # <<>>
                  /\ call.loader.cases[k].presenting_complaint =
                         Blocks(call.arg[1])[k].complaint
                  /\ call.loader.cases[k].diagnosis =
                         strip(Blocks(call.arg[1])[k].diagnosis)

\* C6: CaseLoader.load_cases_from_file raises when the file cannot be
\* opened or gives no record; it never returns an empty sequence.
C6_LoaderNeverReturnsEmpty ==
    call.op = "load_cases_from_file" =>
        /\ ~FileSystem(call.arg[1]).readable => call.loader.outcome = "raise"
        /\ call.loader.outcome = "return" => call.loader.cases # <<>>

\* C7: when CaseLoader hands a sequence back without raising, the load
\* leaves all_cases that sequence, current_case its first record, the
\* transcript empty and no diagnosis made.
C7_LoadActivatesFirstCase ==
    (call.op = "load_cases_from_file" /\ call.loader.outcome = "return")
        => /\ all_cases = call.loader.cases
           /\ Len(all_cases) > 0
           /\ current_case = all_cases[1]
           /\ conversation_history = <<>>
           /\ ~diagnosis_made
           /\ ~diagnosis_correct

\* C8: when the external model fails during a turn, the hardened interact
\* returns the error text and the unhardened one raises; either way
\* current_case, diagnosis_made and diagnosis_correct are unchanged.
C8_ModelFailure ==
    [][(call'.op = "interact" /\ call'.model = "failed") =>
          /\ IF variant = "virtual_patient_2"
             THEN call'.outcome = "return" /\ call'.text = ErrorGenerating
             ELSE call'.outcome = "raise"
          /\ UNCHANGED <<all_cases, current_case, diagnosis_made,
                         diagnosis_correct>>]_vars

\* The hardened interact caught a failure after a correct diagnosis.
C8_Witness ==
    /\ call.op = "interact"
    /\ call.model = "failed"
    /\ variant = "virtual_patient_2"
    /\ call.text = ErrorGenerating
    /\ diagnosis_made
    /\ diagnosis_correct

\* The score the last diagnosis check since set_case calls for.
ExpectedScore ==
    IF ~attempt.made THEN 0
    ELSE IF attempt.completed /\ Verdict[attempt.msg][current_case.diagnosis]
         THEN 1 ELSE 0

\* C9: get_score returns 0 and "No diagnosis attempted yet." when no check
\* ran since the last set_case, and otherwise 1 exactly when the most recent
\* check matched; it changes nothing.
C9_GetScore ==
    [][call'.op = "get_score" =>
          /\ call'.score = ExpectedScore
          /\ ~attempt.made => call'.text = "No diagnosis attempted yet."
          /\ attempt.made => call'.text # "No diagnosis attempted yet."
          /\ UNCHANGED <<all_cases, current_case, conversation_history,
                         diagnosis_made, diagnosis_correct>>]_vars

\* get_score before any attempt, on a transcript that ends with a doctor
\* message whose model call failed.
C9_Witness ==
    /\ call.op = "get_score"
    /\ call.score = 0
    /\ call.text = "No diagnosis attempted yet."
    /\ conversation_history # <<>>
    /\ conversation_history[Len(conversation_history)].role = "user"

\* C10: while the active case has an empty diagnosis, no diagnosis attempt
\* is scored correct.
C10_EmptyTruthNeverCorrect ==
    (current_case # None /\ current_case.diagnosis = <<>>)
        => ~diagnosis_correct

\* C11: between calls, conversation_history alternates 'user' and
\* 'assistant' turns, starts with 'user' and has even length: every recorded
\* doctor message is followed by a recorded patient reply.
C11_HistoryAlternates ==
    /\ Len(conversation_history) % 2 = 0
    /\ \A t \in 1..Len(conversation_history) :
           conversation_history[t].role =
               (IF t % 2 = 1 THEN "user" ELSE "assistant")

====
